---- MODULE Spec2Model ----
(***************************************************************************)
(* Model of the ExpenseTracker MCP server (src/main.py): one SQLite table  *)
(* `expenses`, six tools over it and one resource reading a side-car file. *)
(*                                                                         *)
(* Encoding of Python / SQLite values                                      *)
(*   text      a tuple of character codes ("" is <<>>), compared bytewise  *)
(*             (SQLite BINARY collation);                                  *)
(*   optional  None is <<>>, a present value v is <<v>>; SQL NULL and JSON *)
(*             null use the same encoding;                                 *)
(*   outcome   [kind |-> "return", value |-> v] for a returned value and   *)
(*             [kind |-> "raise", exc |-> e] for an exception leaving the  *)
(*             handler.                                                    *)
(***************************************************************************)
EXTENDS Integers, Sequences, FiniteSets

VARIABLES
    expenses,         \* rows of table expenses
    sqlite_sequence,  \* largest rowid ever issued (kept by AUTOINCREMENT)
    categories_file,  \* content of categories.json on disk
    call,             \* the last invocation: operation and arguments
    result,           \* its outcome
    pre,              \* the rows of the table when the last invocation began
    returned_ids      \* ids returned by add_expense before the last invocation

vars == <<expenses, sqlite_sequence, categories_file, call, result, pre, returned_ids>>

\* ---------------------------------------------------------------- bounds
\* add_expense is cut off once this many ids have been issued.
MaxId == 2

\* ---------------------------------------------------------------- values
None == <<>>
Some(v) == <<v>>

EmptyText == <<>>
\* "01-05", "02", "02-01": dates are unvalidated text
D0105 == <<48, 49, 45, 48, 53>>
D02 == <<48, 50>>
D0201 == <<48, 50, 45, 48, 49>>
\* "food", "rent"
Food == <<102, 111, 111, 100>>
Rent == <<114, 101, 110, 116>>
\* "s", "n"
SubS == <<115>>
NoteN == <<110>>
\* two contents of categories.json
FileA == <<91, 93>>
FileB == <<91, 49, 93>>

\* arguments the tools are invoked with
AddInputs ==
    { [date |-> D0105, amount |-> 2, category |-> Food, subcategory |-> EmptyText,
       note |-> NoteN],
      [date |-> D0201, amount |-> 0, category |-> EmptyText, subcategory |-> SubS,
       note |-> EmptyText] }
NoArgs == [date |-> None, amount |-> None, category |-> None, subcategory |-> None,
           note |-> None]
UpdateInputs ==
    { NoArgs,
      [NoArgs EXCEPT !.note = Some(EmptyText)],
      [NoArgs EXCEPT !.date = Some(D0201), !.amount = Some(0)],
      [NoArgs EXCEPT !.category = Some(EmptyText), !.subcategory = Some(SubS)],
      [date |-> Some(D0201), amount |-> Some(0), category |-> Some(EmptyText),
       subcategory |-> Some(SubS), note |-> Some(EmptyText)] }
Ranges ==
    { <<D0105, D0105>>, <<D0105, D02>>, <<D02, D0201>>, <<D0105, D0201>>, <<D0201, D0105>> }
CategoryFilters == {None, Some(EmptyText), Some(Food), Some(Rent)}
FileContents == {FileA, FileB}
Ids == 1..(MaxId + 1)

\* names bound by the import statements of the module
Imports == {"FastMCP", "os", "aiosqlite", "asyncio"}

Returned(v) == [kind |-> "return", value |-> v]
Raised(e) == [kind |-> "raise", exc |-> e]

\* ---------------------------------------------------------------- SQLite
RECURSIVE LexLess(_, _)
\* bytewise text comparison a < b (memcmp, then the shorter text first)
LexLess(a, b) ==
    IF b = <<>> THEN FALSE
    ELSE IF a = <<>> THEN TRUE
    ELSE IF a[1] /= b[1] THEN a[1] < b[1]
    ELSE LexLess(Tail(a), Tail(b))

LexLeq(a, b) == a = b \/ LexLess(a, b)

\* variant of Between: the upper bound is excluded
BetweenHalfOpen(x, lo, hi) == LexLeq(lo, x) /\ LexLess(x, hi)

\* x BETWEEN lo AND hi
Between(x, lo, hi) == LexLeq(lo, x) /\ LexLeq(x, hi)

MaxRowid(rows) ==
    IF rows = {} THEN 0 ELSE CHOOSE m \in {r.id : r \in rows} : \A r \in rows : r.id <= m

\* variant of NextRowid: a plain INTEGER PRIMARY KEY (no AUTOINCREMENT)
NextRowidPlain(rows, seq) == MaxRowid(rows) + 1

\* rowid chosen for an insert into an INTEGER PRIMARY KEY AUTOINCREMENT table
NextRowid(rows, seq) ==
    (IF MaxRowid(rows) > seq THEN MaxRowid(rows) ELSE seq) + 1

RECURSIVE SumAmount(_)
\* SUM(amount): NULL over no rows
SumAmount(rows) ==
    IF rows = {} THEN None
    ELSE LET r == CHOOSE x \in rows : TRUE
             rest == SumAmount(rows \ {r})
         IN  IF rest = None THEN Some(r.amount) ELSE Some(r.amount + rest[1])

RECURSIVE OrderById(_)
\* ORDER BY id ASC
OrderById(rows) ==
    IF rows = {} THEN <<>>
    ELSE LET m == CHOOSE x \in rows : \A y \in rows : x.id <= y.id
         IN  <<m>> \o OrderById(rows \ {m})

RECURSIVE OrderByCategoryDesc(_)
\* variant of OrderByCategory: ORDER BY category DESC
OrderByCategoryDesc(groups) ==
    IF groups = {} THEN <<>>
    ELSE LET m == CHOOSE x \in groups : \A y \in groups : LexLeq(y.category, x.category)
         IN  <<m>> \o OrderByCategoryDesc(groups \ {m})

RECURSIVE OrderByCategory(_)
\* ORDER BY category ASC over the groups of a GROUP BY category
OrderByCategory(groups) ==
    IF groups = {} THEN <<>>
    ELSE LET m == CHOOSE x \in groups : \A y \in groups : LexLeq(x.category, y.category)
         IN  <<m>> \o OrderByCategory(groups \ {m})

\* SELECT category, SUM(amount) AS total_amount ... GROUP BY category
GroupByCategory(rows) ==
    { [category |-> c, total_amount |-> SumAmount({r \in rows : r.category = c})[1]] :
        c \in {r.category : r \in rows} }

\* ---------------------------------------------------------------- Python
\* truth value of an optional text argument: None and "" are false
Truthy(arg) == arg /= None /\ arg[1] /= EmptyText

\* `x is not None`
IsNotNone(arg) == arg /= None

\* variant of OrZero: `row[0]` alone
OrZeroMissing(v) == v

\* `row[0] or 0` on an optional number
OrZero(v) == IF v = None \/ v = Some(0) THEN Some(0) ELSE v

\* variant of StoreFailure: the handler catches the exception and returns an error
StoreFailureCaught(attempt) ==
    [kind |-> "return", value |-> [status |-> "error", message |-> "OperationalError"],
     attempts |-> attempt]

\* outcome of a handler whose store access raises on the given attempt:
\* no handler has a try/except or a loop, so the first failure leaves it
StoreFailure(attempt) == [kind |-> "raise", exc |-> "OperationalError", attempts |-> attempt]

\* variant of SetFields: the note is tested with `if note:`
SetFieldsTruthyNote(row, args) ==
    [id          |-> row.id,
     date        |-> IF IsNotNone(args.date) THEN args.date[1] ELSE row.date,
     amount      |-> IF IsNotNone(args.amount) THEN args.amount[1] ELSE row.amount,
     category    |-> IF IsNotNone(args.category) THEN args.category[1] ELSE row.category,
     subcategory |-> IF IsNotNone(args.subcategory) THEN args.subcategory[1] ELSE row.subcategory,
     note        |-> IF Truthy(args.note) THEN args.note[1] ELSE row.note]

\* the SET list of update_expense applied to one row
SetFields(row, args) ==
    [id          |-> row.id,
     date        |-> IF IsNotNone(args.date) THEN args.date[1] ELSE row.date,
     amount      |-> IF IsNotNone(args.amount) THEN args.amount[1] ELSE row.amount,
     category    |-> IF IsNotNone(args.category) THEN args.category[1] ELSE row.category,
     subcategory |-> IF IsNotNone(args.subcategory) THEN args.subcategory[1] ELSE row.subcategory,
     note        |-> IF IsNotNone(args.note) THEN args.note[1] ELSE row.note]

\* variant of NoFields: the check is missing
NoFieldsUnchecked(args) == FALSE

\* `if not fields`: no optional argument was supplied
NoFields(args) ==
    ~ (IsNotNone(args.date) \/ IsNotNone(args.amount) \/ IsNotNone(args.category)
         \/ IsNotNone(args.subcategory) \/ IsNotNone(args.note))

\* rows matched by WHERE id = ?
WhereId(rows, expense_id) == {r \in rows : r.id = expense_id}

\* rows matched by WHERE date BETWEEN ? AND ?
WhereDate(rows, start_date, end_date) ==
    {r \in rows : Between(r.date, start_date, end_date)}

\* the rows list_expenses selects, in the order it returns them
ListRows(rows, start_date, end_date) == OrderById(WhereDate(rows, start_date, end_date))

\* the WHERE clause summarize assembles
WhereSummarize(rows, start_date, end_date, category) ==
    IF Truthy(category)
    THEN {r \in WhereDate(rows, start_date, end_date) : r.category = category[1]}
    ELSE WhereDate(rows, start_date, end_date)

\* variant of DeleteResult: cur.rowcount is not consulted
DeleteResultAlwaysOk(rowcount, expense_id) == [status |-> "ok", deleted_id |-> expense_id]

\* result of delete_expense from cur.rowcount
DeleteResult(rowcount, expense_id) ==
    IF rowcount /= 0
    THEN [status |-> "ok", deleted_id |-> expense_id]
    ELSE [status |-> "error", message |-> "Expense not found"]

\* result of update_expense from cur.rowcount
UpdateResult(rowcount, expense_id) ==
    IF rowcount /= 0
    THEN [status |-> "ok", updated_id |-> expense_id]
    ELSE [status |-> "error", message |-> "Expense not found"]

\* ---------------------------------------------------------------- state
\* ids add_expense has returned up to and including the last invocation
IdsReturned ==
    IF call.op = "add_expense" /\ result.kind = "return"
    THEN returned_ids \cup {result.value.id}
    ELSE returned_ids

\* what every invocation records
Invoke(c, r) ==
    /\ call' = c
    /\ result' = r
    /\ pre' = expenses
    /\ returned_ids' = IdsReturned

\* the store raises (lock contention, I/O) inside the handler
Fails(op) ==
    /\ Invoke([op |-> op, store |-> "fails"], StoreFailure(1))
    /\ UNCHANGED <<expenses, sqlite_sequence, categories_file>>

\* init_db on a fresh database file
Init ==
    /\ expenses = {}
    /\ sqlite_sequence = 0
    /\ categories_file \in FileContents
    /\ call = [op |-> "init_db", store |-> "ok"]
    /\ result = Returned(None)
    /\ pre = {}
    /\ returned_ids = {}

add_expense(date, amount, category, subcategory, note) ==
    LET id == NextRowid(expenses, sqlite_sequence)
        row == [id |-> id, date |-> date, amount |-> amount, category |-> category,
                subcategory |-> subcategory, note |-> note]
    IN  /\ id <= MaxId
        /\ expenses' = expenses \cup {row}
        /\ sqlite_sequence' = id
        /\ Invoke([op |-> "add_expense", store |-> "ok", date |-> date, amount |-> amount,
                   category |-> category, subcategory |-> subcategory, note |-> note],
                  Returned([status |-> "ok", id |-> id]))
        /\ UNCHANGED categories_file

list_expenses(start_date, end_date) ==
    /\ Invoke([op |-> "list_expenses", store |-> "ok",
               start_date |-> start_date, end_date |-> end_date],
              Returned(ListRows(expenses, start_date, end_date)))
    /\ UNCHANGED <<expenses, sqlite_sequence, categories_file>>

summarize(start_date, end_date, category) ==
    /\ Invoke([op |-> "summarize", store |-> "ok", start_date |-> start_date,
               end_date |-> end_date, category |-> category],
              Returned(OrderByCategory(GroupByCategory(
                  WhereSummarize(expenses, start_date, end_date, category)))))
    /\ UNCHANGED <<expenses, sqlite_sequence, categories_file>>

delete_expense(expense_id) ==
    LET hit == WhereId(expenses, expense_id)
    IN  /\ expenses' = expenses \ hit
        /\ Invoke([op |-> "delete_expense", store |-> "ok", expense_id |-> expense_id],
                  Returned(DeleteResult(Cardinality(hit), expense_id)))
        /\ UNCHANGED <<sqlite_sequence, categories_file>>

update_expense(expense_id, args) ==
    LET hit == WhereId(expenses, expense_id)
        c == [op |-> "update_expense", store |-> "ok", expense_id |-> expense_id, args |-> args]
    IN  IF NoFields(args)
        THEN /\ Invoke(c, Returned([status |-> "error",
                                    message |-> "No fields provided to update"]))
             /\ UNCHANGED <<expenses, sqlite_sequence, categories_file>>
        ELSE /\ expenses' = (expenses \ hit) \cup {SetFields(r, args) : r \in hit}
             /\ Invoke(c, Returned(UpdateResult(Cardinality(hit), expense_id)))
             /\ UNCHANGED <<sqlite_sequence, categories_file>>

total_expenses(start_date, end_date) ==
    /\ Invoke([op |-> "total_expenses", store |-> "ok",
               start_date |-> start_date, end_date |-> end_date],
              Returned([total |-> OrZero(SumAmount(WhereDate(expenses, start_date, end_date)))]))
    /\ UNCHANGED <<expenses, sqlite_sequence, categories_file>>

\* the resource expense://categories
categories ==
    /\ Invoke([op |-> "categories", store |-> "ok"],
              IF "aiofiles" \in Imports
              THEN Returned(categories_file)
              ELSE Raised("NameError"))
    /\ UNCHANGED <<expenses, sqlite_sequence, categories_file>>

\* somebody edits categories.json while the server runs
EditCategoriesFile ==
    /\ \E content \in FileContents \ {categories_file} : categories_file' = content
    /\ Invoke([op |-> "edit categories.json", store |-> "ok"], Returned(None))
    /\ UNCHANGED <<expenses, sqlite_sequence>>

StoreOps ==
    {"add_expense", "list_expenses", "summarize", "delete_expense", "update_expense",
     "total_expenses"}

AddStep ==
    \E a \in AddInputs : add_expense(a.date, a.amount, a.category, a.subcategory, a.note)

ListStep == \E r \in Ranges : list_expenses(r[1], r[2])

SummarizeStep == \E r \in Ranges, c \in CategoryFilters : summarize(r[1], r[2], c)

DeleteStep == \E i \in Ids : delete_expense(i)

UpdateStep == \E i \in Ids, a \in UpdateInputs : update_expense(i, a)

TotalStep == \E r \in Ranges : total_expenses(r[1], r[2])

FailStep == \E op \in StoreOps : Fails(op)

Next ==
    \/ AddStep
    \/ ListStep
    \/ SummarizeStep
    \/ DeleteStep
    \/ UpdateStep
    \/ TotalStep
    \/ categories
    \/ EditCategoriesFile
    \/ FailStep

Spec == Init /\ [][Next]_vars

\* ================================================================ claims
\* Text comparison restated without recursion: a <= b iff after a common
\* prefix of k characters either a ends or a's next character is smaller.
StrLeq(a, b) ==
    \E k \in 0..(IF Len(a) < Len(b) THEN Len(a) ELSE Len(b)) :
        /\ \A i \in 1..k : a[i] = b[i]
        /\ \/ k = Len(a)
           \/ (k < Len(a) /\ k < Len(b) /\ a[k + 1] < b[k + 1])

StrLess(a, b) == StrLeq(a, b) /\ a /= b

\* stored rows whose date d satisfies s <= d <= e
RowsInRange(rows, s, e) == {r \in rows : StrLeq(s, r.date) /\ StrLeq(r.date, e)}

RECURSIVE AmountUpTo(_, _)
\* sum of amount over the rows with id in 1..n
AmountUpTo(rows, n) ==
    IF n = 0 THEN 0
    ELSE AmountUpTo(rows, n - 1)
           + (IF \E r \in rows : r.id = n THEN (CHOOSE r \in rows : r.id = n).amount ELSE 0)

TotalAmount(rows) == AmountUpTo(rows, MaxId + 1)

RECURSIVE SeqAmount(_)
\* sum of amount over a sequence of records
SeqAmount(seq) == IF seq = <<>> THEN 0 ELSE Head(seq).amount + SeqAmount(Tail(seq))

Range(seq) == {seq[i] : i \in 1..Len(seq)}

Completed(op) == call.op = op /\ call.store = "ok"

NotFound == Returned([status |-> "error", message |-> "Expense not found"])

\* C1: list_expenses(start_date, end_date) returns exactly the stored records
\* whose date lies between the bounds (inclusive, string comparison), each
\* once, in strictly ascending id order, with the stored field values; and a
\* record just inserted by add_expense is stored with the fields it was given
\* and is listed by every range that includes its date.
C1_ListExactInRangeById ==
    /\ Completed("list_expenses") =>
         /\ result.kind = "return"
         /\ \A i \in 1..(Len(result.value) - 1) : result.value[i].id < result.value[i + 1].id
         /\ Range(result.value) = RowsInRange(expenses, call.start_date, call.end_date)
    /\ Completed("add_expense") =>
         LET row == [id |-> result.value.id, date |-> call.date, amount |-> call.amount,
                     category |-> call.category, subcategory |-> call.subcategory,
                     note |-> call.note]
         IN  /\ row \in expenses
             /\ \A r \in Ranges :
                    (StrLeq(r[1], call.date) /\ StrLeq(call.date, r[2]))
                        => row \in Range(ListRows(expenses, r[1], r[2]))

\* C1 witness: of two stored records the listing returns only the one whose
\* date equals both bounds of the range.
C1_Witness ==
    /\ Completed("list_expenses")
    /\ Cardinality(expenses) = 2
    /\ Len(result.value) = 1
    /\ result.value[1].date = call.start_date
    /\ result.value[1].date = call.end_date
    /\ result.value[1].id = 2

\* C2: update_expense on an existing record with at least one field supplied
\* writes exactly the supplied fields (an empty string included), keeps the
\* other fields, the id and every other record, and returns ok with the id.
C2_UpdateSetsSuppliedOnly ==
    (/\ Completed("update_expense")
     /\ \E f \in DOMAIN call.args : call.args[f] /= None
     /\ \E r \in pre : r.id = call.expense_id)
    => LET old == CHOOSE r \in pre : r.id = call.expense_id
       IN  /\ result = Returned([status |-> "ok", updated_id |-> call.expense_id])
           /\ \E new \in expenses :
                 /\ new.id = old.id
                 /\ expenses \ {new} = pre \ {old}
                 /\ \A f \in DOMAIN call.args :
                       new[f] = (IF call.args[f] = None THEN old[f] ELSE call.args[f][1])

\* C2 witness: only note="" is supplied for a record whose note was not
\* empty, while another record is stored.
C2_Witness ==
    /\ Completed("update_expense")
    /\ call.args = [NoArgs EXCEPT !.note = Some(EmptyText)]
    /\ result.kind = "return"
    /\ result.value.status = "ok"
    /\ Cardinality(pre) = 2
    /\ \E r \in pre : r.id = call.expense_id /\ r.note = NoteN

\* C3: update_expense with no field supplied returns the error "No fields
\* provided to update" for every id, and with a field supplied and no
\* matching id returns the error "Expense not found"; both return (do not
\* raise) and leave the table unchanged.
C3_UpdateErrors ==
    Completed("update_expense") =>
        /\ (\A f \in DOMAIN call.args : call.args[f] = None) =>
              /\ result = Returned([status |-> "error",
                                    message |-> "No fields provided to update"])
              /\ expenses = pre
        /\ (/\ \E f \in DOMAIN call.args : call.args[f] /= None
            /\ ~ \E r \in pre : r.id = call.expense_id) =>
              /\ result = NotFound
              /\ expenses = pre

\* C3 witness: no field is supplied and the id names a stored record.
C3_Witness ==
    /\ Completed("update_expense")
    /\ call.args = NoArgs
    /\ \E r \in pre : r.id = call.expense_id
    /\ result.value.status = "error"

\* C4: delete_expense with an id of no stored record returns the not-found
\* error and leaves the table unchanged; with the id of a stored record it
\* removes exactly that record and returns ok with the id.
C4_DeleteExactlyTheRecord ==
    Completed("delete_expense") =>
        IF \E r \in pre : r.id = call.expense_id
        THEN /\ expenses = {r \in pre : r.id /= call.expense_id}
             /\ Cardinality(expenses) = Cardinality(pre) - 1
             /\ result = Returned([status |-> "ok", deleted_id |-> call.expense_id])
        ELSE /\ expenses = pre
             /\ Cardinality(expenses) = Cardinality(pre)
             /\ result = NotFound

\* C4 witness: the id matches none of two stored records.
C4_Witness ==
    /\ Completed("delete_expense")
    /\ Cardinality(pre) = 2
    /\ ~ \E r \in pre : r.id = call.expense_id
    /\ result = NotFound

\* C5: total_expenses returns {total: T} with T the sum of amount over the
\* stored records in the inclusive range, the number 0 when none matches,
\* and equal to the sum over what list_expenses returns for the same range.
C5_TotalIsSumOfListed ==
    Completed("total_expenses") =>
        /\ result.kind = "return"
        /\ result.value.total
             = Some(TotalAmount(RowsInRange(expenses, call.start_date, call.end_date)))
        /\ result.value.total
             = Some(SeqAmount(ListRows(expenses, call.start_date, call.end_date)))
        /\ RowsInRange(expenses, call.start_date, call.end_date) = {}
              => result.value.total = Some(0)

\* C5 witness: records are stored and none lies in the range.
C5_Witness ==
    /\ Completed("total_expenses")
    /\ expenses /= {}
    /\ RowsInRange(expenses, call.start_date, call.end_date) = {}
    /\ result.value.total = Some(0)

\* C6: summarize without a category filter returns one row per category that
\* has a stored record in the range and none for any other category, each
\* with the sum of that category's amounts in range, in strictly ascending
\* order of category.
C6_SummarizeGroupsSorted ==
    (Completed("summarize") /\ call.category = None) =>
        LET out == result.value
            inrange == RowsInRange(expenses, call.start_date, call.end_date)
        IN  /\ result.kind = "return"
            /\ \A i \in 1..(Len(out) - 1) : StrLess(out[i].category, out[i + 1].category)
            /\ {out[i].category : i \in 1..Len(out)} = {r.category : r \in inrange}
            /\ \A i \in 1..Len(out) :
                   /\ DOMAIN out[i] = {"category", "total_amount"}
                   /\ out[i].total_amount
                        = TotalAmount({r \in inrange : r.category = out[i].category})

\* C6 witness: two categories are in range and a row is returned for each.
C6_Witness ==
    /\ Completed("summarize")
    /\ call.category = None
    /\ Len(result.value) = 2
    /\ result.value[2].category = Food
    /\ result.value[2].total_amount = 2

\* C7: summarize with a category supplied returns no row of another category,
\* and exactly one row when a record of that category lies in the range, for
\* every supplied category string.
C7_FilterRestrictsToCategory ==
    (Completed("summarize") /\ call.category /= None) =>
        LET out == result.value
            inrange == RowsInRange(expenses, call.start_date, call.end_date)
        IN  /\ \A i \in 1..Len(out) : out[i].category = call.category[1]
            /\ (\E r \in inrange : r.category = call.category[1]) => Len(out) = 1

\* C8: every id add_expense returns is greater than every id it returned
\* before (deleted records included), no two stored records share an id, and
\* no operation changes the id of a stored record.
C8_IdsUniqueIncreasing ==
    /\ (Completed("add_expense") /\ result.kind = "return") =>
          /\ \A i \in returned_ids : result.value.id > i
          /\ \A r \in pre : result.value.id > r.id
          /\ pre \subseteq expenses
    /\ \A r1, r2 \in expenses : r1.id = r2.id => r1 = r2
    /\ Completed("update_expense") => {r.id : r \in expenses} = {r.id : r \in pre}
    /\ Completed("delete_expense") => {r.id : r \in expenses} \subseteq {r.id : r \in pre}

\* C8 witness: add_expense returns 2 after the record with id 1, the only
\* one stored, was deleted.
C8_Witness ==
    /\ Completed("add_expense")
    /\ result.value.id = 2
    /\ returned_ids = {1}
    /\ pre = {}

\* C9: every read of expense://categories returns the content the category
\* file has at the time of the read.
C9_CategoriesReadsFile ==
    Completed("categories") => result = Returned(categories_file)

\* C10 as stated: a store failure during one of the six operations is
\* surfaced, after one attempt, as a structured error result.
C10_FailureIsStructuredError ==
    (call.op \in StoreOps /\ call.store = "fails") =>
        /\ result.attempts = 1
        /\ result.kind = "return"
        /\ result.value.status = "error"

\* C10 as amended: a store failure during one of the six operations ends the
\* operation after one attempt with the exception raised to the caller, no
\* structured result being returned.
C10_FailureIsRaised ==
    (call.op \in StoreOps /\ call.store = "fails") =>
        /\ result.attempts = 1
        /\ result.kind = "raise"
        /\ "value" \notin DOMAIN result

\* C10 witness: the store fails under update_expense while a record is stored.
C10_Witness ==
    /\ call.op = "update_expense"
    /\ call.store = "fails"
    /\ expenses /= {}
    /\ result.kind = "raise"

====
